---- MODULE Spec2Model ----
(***************************************************************************)
(* leptos_server_signal: a server-owned value mirrored on a client through *)
(* JSON patches sent over a websocket.                                     *)
(*                                                                         *)
(*   server  : ServerSignal<T>::with        (src/src/actix.rs, axum.rs)    *)
(*   wire    : ServerSignalUpdate { name, patch } as a text frame          *)
(*   client  : provide_websocket / create_server_signal / the onmessage    *)
(*             callback                      (src/src/lib.rs)              *)
(*                                                                         *)
(* JSON values are tagged trees, a JSON pointer is a sequence of string    *)
(* tokens, and json_patch::diff / json_patch::patch are modelled by what   *)
(* they compute (RFC 6902 add / remove / replace).                         *)
(***************************************************************************)
EXTENDS Integers, Sequences, FiniteSets, TLC

VARIABLES
    value,            \* server: ServerSignal.value, per channel name
    json_value,       \* server: ServerSignal.json_value, per channel name
    session,          \* server: the connection handle, "open" or "closed"
    ret,              \* server: what the last call of with() returned
    wire,             \* frames written by the server and not yet delivered
    calls,            \* history: number of with() calls made so far
    junk,             \* history: number of frames sent that are not update envelopes
    provided,         \* client: a ServerSignalWebSocket context exists
    state_signals,    \* client: name -> RwSignal<serde_json::Value>
    delayed_updates,  \* client: name -> Vec<Patch>
    getter,           \* client: name -> the ReadSignal<T> create_server_signal returned
    panicked,         \* client: a handler hit unwrap() on an Err / None
    regs,             \* number of create_server_signal calls that inserted, per name
    sent,             \* history: per name, the snapshot and the patch of each envelope written
    arrived,          \* history: patches of the envelopes delivered, per name
    applied,          \* history: patches applied to a replica, per name
    early,            \* history: envelopes delivered before the first registration, per name
    last,             \* history: the last client event handled, and how it ended
    sockets,          \* client: the WebSocket objects created so far, with their handlers
    context_ws,       \* client: ServerSignalWebSocket.ws of the context, 0 without a context
    retry_ws,         \* client: server_signal_ws.ws of each on_timeout closure
    timeouts,         \* client: pending window.set_timeout calls, by closure
    codec             \* inputs and result of one diff / patch round trip

vars == <<value, json_value, session, ret, wire, calls, junk, provided,
          state_signals, delayed_updates, getter, panicked, regs,
          sent, arrived, applied, early, last, sockets, context_ws, retry_ws,
          timeouts, codec>>

(***************************************************************************)
(* Bounds of the model.                                                    *)
(***************************************************************************)
MaxValue == 3       \* largest number a snapshot holds
MaxLen == 1         \* longest list a snapshot holds
MaxSends == 3       \* with() calls plus other frames sent by the server side
MaxRegs == 2        \* create_server_signal calls that insert a replica
MaxArr == 2         \* longest array among the inputs of the codec round trip
MaxSockets == 3     \* WebSocket objects the client creates
MaxClosures == 1    \* add_retry_timeout calls
MaxFaults == 1      \* with() calls that fail in serialization or in the sink

Channels == {"counter", "x"}

(***************************************************************************)
(* serde_json::Value as a tagged tree.                                     *)
(***************************************************************************)
Num(n) == [t |-> "num", v |-> n]
Arr(s) == [t |-> "arr", v |-> s]
Obj(f) == [t |-> "obj", v |-> f]
Fail == [t |-> "err"]
IsErr(x) == x.t = "err"

\* serde_json's Map is ordered by key: the order in which diff visits the keys.
KeyOrder == <<"items", "value">>
Keys == {KeyOrder[i] : i \in 1..Len(KeyOrder)}

\* An array index inside a JSON pointer is its decimal text.
IdxTok == <<"0", "1", "2", "3", "4", "5">>
ToTok(i) == IdxTok[i + 1]
ParseIdx(tok) ==
    IF \E i \in 1..Len(IdxTok) : IdxTok[i] = tok
    THEN (CHOOSE i \in 1..Len(IdxTok) : IdxTok[i] = tok) - 1
    ELSE -1

InsertAt(s, i, x) == SubSeq(s, 1, i) \o <<x>> \o SubSeq(s, i + 1, Len(s))
RemoveIdx(s, i) == SubSeq(s, 1, i) \o SubSeq(s, i + 2, Len(s))
SetIdx(s, i, x) == [s EXCEPT ![i + 1] = x]
PutKey(f, k, x) == [j \in DOMAIN f \cup {k} |-> IF j = k THEN x ELSE f[j]]
DelKey(f, k) == [j \in DOMAIN f \ {k} |-> f[j]]

AddOp(p, x) == [op |-> "add", path |-> p, value |-> x]
RemoveOp(p) == [op |-> "remove", path |-> p]
ReplaceOp(p, x) == [op |-> "replace", path |-> p, value |-> x]

(***************************************************************************)
(* json_patch::diff(left, right): the operations that turn left into right.*)
(***************************************************************************)
RECURSIVE diff_impl(_, _, _)
RECURSIVE diff_keys(_, _, _, _)
RECURSIVE diff_elems(_, _, _, _)

\* keys of right, in key order: recurse into a common key, add a new one
diff_keys(left, right, pointer, i) ==
    IF i > Len(KeyOrder) THEN <<>>
    ELSE LET k == KeyOrder[i]
             here == IF k \notin DOMAIN right.v THEN <<>>
                     ELSE IF k \in DOMAIN left.v
                          THEN diff_impl(left.v[k], right.v[k], Append(pointer, k))
                          ELSE <<AddOp(Append(pointer, k), right.v[k])>>
         IN here \o diff_keys(left, right, pointer, i + 1)

\* common indices of two arrays, ascending, starting at index i (0-based)
diff_elems(left, right, pointer, i) ==
    IF i >= Len(left.v) \/ i >= Len(right.v) THEN <<>>
    ELSE diff_impl(left.v[i + 1], right.v[i + 1], Append(pointer, ToTok(i)))
         \o diff_elems(left, right, pointer, i + 1)

removed_keys(left, right, pointer) ==
    LET gone == SelectSeq(KeyOrder, LAMBDA k : k \in DOMAIN left.v /\ k \notin DOMAIN right.v)
    IN [j \in 1..Len(gone) |-> RemoveOp(Append(pointer, gone[j]))]

added_elems(left, right, pointer) ==
    IF Len(right.v) <= Len(left.v) THEN <<>>
    ELSE [j \in 1..(Len(right.v) - Len(left.v)) |->
            AddOp(Append(pointer, ToTok(Len(left.v) + j - 1)), right.v[Len(left.v) + j])]

\* surplus elements of left are removed from the end backwards
removed_elems(left, right, pointer) ==
    IF Len(left.v) <= Len(right.v) THEN <<>>
    ELSE [j \in 1..(Len(left.v) - Len(right.v)) |->
            RemoveOp(Append(pointer, ToTok(Len(left.v) - j)))]

diff_impl(left, right, pointer) ==
    IF left.t = "obj" /\ right.t = "obj"
    THEN diff_keys(left, right, pointer, 1) \o removed_keys(left, right, pointer)
    ELSE IF left.t = "arr" /\ right.t = "arr"
    THEN diff_elems(left, right, pointer, 0)
         \o added_elems(left, right, pointer)
         \o removed_elems(left, right, pointer)
    ELSE IF left = right THEN <<>>
    ELSE <<ReplaceOp(pointer, right)>>

diff_spurious(left, right) ==
    IF left = right THEN <<ReplaceOp(<<>>, right)>> ELSE diff_impl(left, right, <<>>)

diff_no_remove(left, right) ==
    SelectSeq(diff_impl(left, right, <<>>), LAMBDA o : o.op # "remove")

diff(left, right) == diff_impl(left, right, <<>>)

(***************************************************************************)
(* json_patch::patch(doc, patch): every operation in order; Fail, and the  *)
(* document as it was, when one of them cannot be applied.                 *)
(***************************************************************************)
Lookup(doc, tok) ==
    IF doc.t = "obj"
    THEN IF tok \in DOMAIN doc.v THEN doc.v[tok] ELSE Fail
    ELSE IF doc.t = "arr"
    THEN IF ParseIdx(tok) >= 0 /\ ParseIdx(tok) < Len(doc.v)
         THEN doc.v[ParseIdx(tok) + 1] ELSE Fail
    ELSE Fail

SetChild(doc, tok, x) ==
    IF doc.t = "obj" THEN Obj(PutKey(doc.v, tok, x))
    ELSE Arr(SetIdx(doc.v, ParseIdx(tok), x))

add_leaf(doc, tok, x) ==
    IF doc.t = "obj" THEN Obj(PutKey(doc.v, tok, x))
    ELSE IF doc.t = "arr"
    THEN IF tok = "-" THEN Arr(Append(doc.v, x))
         ELSE IF ParseIdx(tok) >= 0 /\ ParseIdx(tok) <= Len(doc.v)
         THEN Arr(InsertAt(doc.v, ParseIdx(tok), x))
         ELSE Fail
    ELSE Fail

remove_leaf(doc, tok) ==
    IF doc.t = "obj"
    THEN IF tok \in DOMAIN doc.v THEN Obj(DelKey(doc.v, tok)) ELSE Fail
    ELSE IF doc.t = "arr"
    THEN IF ParseIdx(tok) >= 0 /\ ParseIdx(tok) < Len(doc.v)
         THEN Arr(RemoveIdx(doc.v, ParseIdx(tok))) ELSE Fail
    ELSE Fail

replace_leaf(doc, tok, x) ==
    IF IsErr(Lookup(doc, tok)) THEN Fail ELSE SetChild(doc, tok, x)

RECURSIVE apply_at(_, _, _)
apply_at(doc, path, o) ==
    IF path = <<>>
    THEN IF o.op = "remove" THEN Fail ELSE o.value
    ELSE IF Len(path) = 1
    THEN IF o.op = "add" THEN add_leaf(doc, path[1], o.value)
         ELSE IF o.op = "remove" THEN remove_leaf(doc, path[1])
         ELSE replace_leaf(doc, path[1], o.value)
    ELSE LET child == Lookup(doc, path[1])
         IN IF IsErr(child) THEN Fail
            ELSE LET sub == apply_at(child, Tail(path), o)
                 IN IF IsErr(sub) THEN Fail ELSE SetChild(doc, path[1], sub)

RECURSIVE patch_from(_, _, _)
patch_from(doc, ops, i) ==
    IF i > Len(ops) THEN doc
    ELSE LET next == apply_at(doc, ops[i].path, ops[i])
         IN IF IsErr(next) THEN Fail ELSE patch_from(next, ops, i + 1)

patch(doc, ops) == patch_from(doc, ops, 1)

(***************************************************************************)
(* The application type T of a channel and its serde encoding.  T is a     *)
(* struct { value: i32, items: Vec<i32> } with derived Default, Serialize  *)
(* and Deserialize (the examples' Count, with a list beside the number).   *)
(***************************************************************************)
Default == [value |-> 0, items |-> <<>>]

\* serde_json::to_value(t)
to_value(t) ==
    Obj([k \in Keys |-> IF k = "value" THEN Num(t.value)
                        ELSE Arr([i \in 1..Len(t.items) |-> Num(t.items[i])])])

\* serde_json::from_value::<T>(j): an Err unless j has the shape of T
from_value(j) ==
    IF /\ j.t = "obj"
       /\ Keys \subseteq DOMAIN j.v
       /\ j.v["value"].t = "num"
       /\ j.v["items"].t = "arr"
       /\ \A i \in 1..Len(j.v["items"].v) : j.v["items"].v[i].t = "num"
    THEN [ok |-> TRUE,
          val |-> [value |-> j.v["value"].v,
                   items |-> [i \in 1..Len(j.v["items"].v) |-> j.v["items"].v[i].v]]]
    ELSE [ok |-> FALSE]

\* The closures a caller passes to with(): |t| t.value += 1, t.items.push(t.value)
\* and t.items.pop(), which changes nothing when the list is empty.
Mutators == {"incr", "push", "pop"}

MutatorAllowed(m, t) ==
    /\ m = "incr" => t.value < MaxValue
    /\ m = "push" => Len(t.items) < MaxLen

f(m, t) ==
    IF m = "incr" THEN [t EXCEPT !.value = @ + 1]
    ELSE IF m = "push" THEN [t EXCEPT !.items = Append(@, t.value)]
    ELSE [t EXCEPT !.items = SubSeq(@, 1, Len(@) - 1)]

(***************************************************************************)
(* The update envelope and the frames of the connection.                   *)
(***************************************************************************)
new_from_json_swapped(name, old, new) == [name |-> name, patch |-> diff(new, old)]

new_from_json(name, old, new) == [name |-> name, patch |-> diff(old, new)]

\* serde_json::to_string(&update): the JSON text of an envelope
to_string(update) == [json |-> "update", name |-> update.name, patch |-> update.patch]
\* a text that is no envelope: truncated, or not JSON at all
Garbage == [json |-> "garbage"]

\* serde_json::from_str::<ServerSignalUpdate>(text)
from_str(text) ==
    IF text.json = "update"
    THEN [ok |-> TRUE, update |-> [name |-> text.name, patch |-> text.patch]]
    ELSE [ok |-> FALSE]

TextFrame(text) == [frame |-> "text", data |-> text]
BinaryFrame == [frame |-> "binary"]

NoEvent == [kind |-> "none", name |-> "", outcome |-> "none"]

(***************************************************************************)
(* Initial state: the page has loaded and nothing has been provided,       *)
(* registered or sent; each server channel holds T::default().             *)
(***************************************************************************)
InitMain ==
    /\ value = [c \in Channels |-> Default]
    /\ json_value = [c \in Channels |-> to_value(Default)]
    /\ session = "open"
    /\ ret = [name |-> "", f |-> "", res |-> "none"]
    /\ wire = <<>>
    /\ calls = 0
    /\ junk = 0
    /\ provided = FALSE
    /\ state_signals = <<>>
    /\ delayed_updates = <<>>
    /\ getter = <<>>
    /\ panicked = FALSE
    /\ regs = [c \in Channels |-> 0]
    /\ sent = [c \in Channels |-> <<>>]
    /\ arrived = [c \in Channels |-> <<>>]
    /\ applied = [c \in Channels |-> <<>>]
    /\ early = [c \in Channels |-> 0]
    /\ last = NoEvent
    /\ sockets = <<>>
    /\ context_ws = 0
    /\ retry_ws = <<>>
    /\ timeouts = <<>>

Init == InitMain /\ codec = [phase |-> "idle"]

serverVars == <<value, json_value, session, ret, calls, junk, sent>>
connVars == <<sockets, context_ws, retry_ws, timeouts>>
clientVars == <<provided, state_signals, delayed_updates, getter, panicked,
                regs, arrived, applied, early, last, connVars>>

(***************************************************************************)
(* Server: ServerSignal::with.                                             *)
(***************************************************************************)
ServerSignal_with_rollback(c, m) ==
    /\ provided
    /\ calls + junk < MaxSends
    /\ MutatorAllowed(m, value[c])
    /\ LET output == f(m, value[c])
           new_json == to_value(output)
           update == new_from_json(c, json_value[c], new_json)
           update_json == to_string(update)
       IN /\ value' = IF session = "open" THEN [value EXCEPT ![c] = output] ELSE value
          /\ IF session = "open"
             THEN /\ wire' = Append(wire, TextFrame(update_json))
                  /\ json_value' = [json_value EXCEPT ![c] = new_json]
                  /\ sent' = [sent EXCEPT ![c] =
                                 Append(@, [snap |-> output, patch |-> update.patch])]
                  /\ ret' = [name |-> c, f |-> m, res |-> "Ok"]
             ELSE /\ ret' = [name |-> c, f |-> m, res |-> "WebSocket"]
                  /\ UNCHANGED <<wire, json_value, sent>>
    /\ calls' = calls + 1
    /\ UNCHANGED <<session, junk, codec>>
    /\ UNCHANGED clientVars

ServerSignal_with_skip_noop(c, m) ==
    /\ provided
    /\ calls + junk < MaxSends
    /\ MutatorAllowed(m, value[c])
    /\ LET output == f(m, value[c])
           new_json == to_value(output)
           update == new_from_json(c, json_value[c], new_json)
           update_json == to_string(update)
       IN /\ value' = [value EXCEPT ![c] = output]
          /\ IF session = "open"
             THEN /\ wire' = IF update.patch = <<>> THEN wire
                          ELSE Append(wire, TextFrame(update_json))
                  /\ json_value' = [json_value EXCEPT ![c] = new_json]
                  /\ sent' = [sent EXCEPT ![c] =
                                 Append(@, [snap |-> output, patch |-> update.patch])]
                  /\ ret' = [name |-> c, f |-> m, res |-> "Ok"]
             ELSE /\ ret' = [name |-> c, f |-> m, res |-> "WebSocket"]
                  /\ UNCHANGED <<wire, json_value, sent>>
    /\ calls' = calls + 1
    /\ UNCHANGED <<session, junk, codec>>
    /\ UNCHANGED clientVars

ServerSignal_with(c, m) ==
    /\ provided
    /\ calls + junk < MaxSends
    /\ MutatorAllowed(m, value[c])
    /\ LET output == f(m, value[c])
           new_json == to_value(output)
           update == new_from_json(c, json_value[c], new_json)
           update_json == to_string(update)
       IN /\ value' = [value EXCEPT ![c] = output]
          /\ IF session = "open"
             THEN /\ wire' = Append(wire, TextFrame(update_json))
                  /\ json_value' = [json_value EXCEPT ![c] = new_json]
                  /\ sent' = [sent EXCEPT ![c] =
                                 Append(@, [snap |-> output, patch |-> update.patch])]
                  /\ ret' = [name |-> c, f |-> m, res |-> "Ok"]
             ELSE /\ ret' = [name |-> c, f |-> m, res |-> "WebSocket"]
                  /\ UNCHANGED <<wire, json_value, sent>>
    /\ calls' = calls + 1
    /\ UNCHANGED <<session, junk, codec>>
    /\ UNCHANGED clientVars

\* The connection reports closure: every later write fails.
ConnectionClosed ==
    /\ provided
    /\ session = "open"
    /\ session' = "closed"
    /\ UNCHANGED <<value, json_value, ret, wire, calls, junk, sent, codec>>
    /\ UNCHANGED clientVars

\* The peer sends a frame that is no update envelope.
SendOther(frame) ==
    /\ provided
    /\ session = "open"
    /\ calls + junk < MaxSends
    /\ wire' = Append(wire, frame)
    /\ junk' = junk + 1
    /\ UNCHANGED <<value, json_value, session, ret, calls, sent, codec>>
    /\ UNCHANGED clientVars

(***************************************************************************)
(* Client: provide_websocket, create_server_signal, the onmessage callback.*)
(***************************************************************************)
\* WebSocket::new(url): an open socket without handlers. A handler is 0 (null)
\* or the number of the closure it was set to; the only onmessage closure is 1,
\* the callback over the registry and the delayed queue of the context.
NewSocket == [state |-> "open", onmessage |-> 0, onerror |-> 0, onclose |-> 0]

\* provide_websocket_inner: the context, with a new socket, an empty registry
\* and an empty delayed queue, is created only if there is none yet; the
\* onmessage callback is set on the socket of the context in either case.
inner_ws == IF context_ws = 0 THEN Len(sockets) + 1 ELSE context_ws
inner_sockets ==
    [(IF context_ws = 0 THEN Append(sockets, NewSocket) ELSE sockets)
        EXCEPT ![inner_ws].onmessage = 1]

provide_websocket_reopening ==
    /\ ~panicked
    /\ provided' = TRUE
    /\ context_ws' = Len(sockets) + 1
    /\ sockets' = Append(sockets, [NewSocket EXCEPT !.onmessage = 1])
    /\ state_signals' = <<>>
    /\ delayed_updates' = <<>>
    /\ last' = [kind |-> "provide", name |-> "",
                outcome |-> IF context_ws = 0 THEN "created" ELSE "existing"]
    /\ UNCHANGED <<getter, panicked, regs, arrived, applied, early, retry_ws,
                   timeouts, wire, codec>>
    /\ UNCHANGED serverVars

provide_websocket ==
    /\ ~panicked
    /\ provided' = TRUE
    /\ context_ws' = inner_ws
    /\ sockets' = inner_sockets
    /\ last' = [kind |-> "provide", name |-> "",
                outcome |-> IF context_ws = 0 THEN "created" ELSE "existing"]
    /\ UNCHANGED <<state_signals, delayed_updates, getter, panicked, regs,
                   arrived, applied, early, retry_ws, timeouts, wire, codec>>
    /\ UNCHANGED serverVars

create_server_signal_discarding(c) ==
    /\ ~panicked
    /\ regs["counter"] + regs["x"] < MaxRegs
    /\ IF provided
       THEN /\ state_signals' = PutKey(state_signals, c, to_value(Default))
            /\ regs' = [regs EXCEPT ![c] = @ + 1]
            /\ last' = [kind |-> "register", name |-> c,
                        outcome |-> IF c \in DOMAIN state_signals
                                    THEN "replaced" ELSE "inserted"]
       ELSE /\ last' = [kind |-> "register", name |-> c, outcome |-> "no_context"]
            /\ UNCHANGED <<state_signals, regs>>
    /\ getter' = PutKey(getter, c, Default)
    /\ delayed_updates' = IF provided /\ c \in DOMAIN state_signals
                        THEN DelKey(delayed_updates, c) ELSE delayed_updates
    /\ UNCHANGED <<provided, panicked, arrived, applied, early, wire, codec>>
    /\ UNCHANGED connVars
    /\ UNCHANGED serverVars

\* create_server_signal(name): a fresh replica holding to_value(T::default())
\* is inserted under name; delayed_updates is not touched.
create_server_signal(c) ==
    /\ ~panicked
    /\ regs["counter"] + regs["x"] < MaxRegs
    /\ IF provided
       THEN /\ state_signals' = PutKey(state_signals, c, to_value(Default))
            /\ regs' = [regs EXCEPT ![c] = @ + 1]
            /\ last' = [kind |-> "register", name |-> c,
                        outcome |-> IF c \in DOMAIN state_signals
                                    THEN "replaced" ELSE "inserted"]
       ELSE /\ last' = [kind |-> "register", name |-> c, outcome |-> "no_context"]
            /\ UNCHANGED <<state_signals, regs>>
    /\ getter' = PutKey(getter, c, Default)
    /\ UNCHANGED <<provided, delayed_updates, panicked, arrived, applied, early,
                   wire, codec>>
    /\ UNCHANGED connVars
    /\ UNCHANGED serverVars

\* The loop over the delayed patches inside signal.update: each patch is
\* applied with unwrap(), so the loop stops at the first one that fails.
RECURSIVE apply_delayed(_, _, _)
RECURSIVE apply_delayed_reversed(_, _, _)
apply_delayed_reversed(doc, patches, i) ==
    IF i > Len(patches) THEN [doc |-> doc, log |-> <<>>, ok |-> TRUE]
    ELSE LET p == patches[Len(patches) + 1 - i]
             next == patch(doc, p)
         IN IF IsErr(next) THEN [doc |-> doc, log |-> <<>>, ok |-> FALSE]
            ELSE LET rest == apply_delayed_reversed(next, patches, i + 1)
                 IN [rest EXCEPT !.log = <<p>> \o @]

apply_delayed(doc, patches, i) ==
    IF i > Len(patches) THEN [doc |-> doc, log |-> <<>>, ok |-> TRUE]
    ELSE LET next == patch(doc, patches[i])
         IN IF IsErr(next) THEN [doc |-> doc, log |-> <<>>, ok |-> FALSE]
            ELSE LET rest == apply_delayed(next, patches, i + 1)
                 IN [rest EXCEPT !.log = <<patches[i]>> \o @]

push_delayed_all(map, name, p) ==
    [c \in Channels |-> Append(IF c \in DOMAIN map THEN map[c] ELSE <<>>, p)]

push_delayed_front(map, name, p) ==
    PutKey(map, name, <<p>> \o (IF name \in DOMAIN map THEN map[name] ELSE <<>>))

\* delayed_map.entry(name).or_default().push(patch)
push_delayed(map, name, p) ==
    PutKey(map, name, Append(IF name \in DOMAIN map THEN map[name] ELSE <<>>, p))

\* The effect of create_server_signal: set.set(from_value(signal.get()).unwrap())
effect(c, doc) ==
    IF from_value(doc).ok THEN PutKey(getter, c, from_value(doc).val) ELSE getter

\* the socket of the latest connection: the one the frames on the wire reach
live == Len(sockets)

on_message ==
    /\ provided
    /\ ~panicked
    /\ sockets[live].state = "open"
    /\ sockets[live].onmessage = 1
    /\ wire # <<>>
    /\ wire' = Tail(wire)
    /\ LET frame == Head(wire) IN
       IF frame.frame # "text"
       THEN \* event.data().dyn_into::<JsString>().unwrap()
            /\ panicked' = TRUE
            /\ last' = [kind |-> "binary", name |-> "", outcome |-> "panic"]
            /\ UNCHANGED <<state_signals, delayed_updates, getter, arrived, applied, early>>
       ELSE IF ~from_str(frame.data).ok
       THEN /\ last' = [kind |-> "garbage", name |-> "", outcome |-> "ignored"]
            /\ UNCHANGED <<state_signals, delayed_updates, getter, panicked,
                           arrived, applied, early>>
       ELSE LET update_signal == from_str(frame.data).update
                name == update_signal.name
            IN /\ arrived' = [arrived EXCEPT ![name] = Append(@, update_signal.patch)]
               /\ IF name \in DOMAIN state_signals
                  THEN LET queued == name \in DOMAIN delayed_updates
                           delayed_patches == IF queued THEN delayed_updates[name] ELSE <<>>
                           batch == apply_delayed(state_signals[name], delayed_patches, 1)
                           doc == IF batch.ok THEN patch(batch.doc, update_signal.patch)
                                  ELSE Fail
                           final == IF IsErr(doc) THEN batch.doc ELSE doc
                           notified == ~IsErr(doc) \/ (queued /\ batch.ok)
                       IN /\ delayed_updates' = DelKey(delayed_updates, name)
                          /\ state_signals' = PutKey(state_signals, name, final)
                          /\ applied' = [applied EXCEPT ![name] =
                                @ \o batch.log
                                  \o (IF IsErr(doc) THEN <<>> ELSE <<update_signal.patch>>)]
                          /\ getter' = IF notified THEN effect(name, final) ELSE getter
                          /\ panicked' = (IsErr(doc) \/ (notified /\ ~from_value(final).ok))
                          /\ last' = [kind |-> "update", name |-> name,
                                      outcome |-> IF panicked' THEN "panic" ELSE "applied"]
                          /\ UNCHANGED early
                  ELSE /\ delayed_updates' = push_delayed(delayed_updates, name,
                                                            update_signal.patch)
                       /\ early' = [early EXCEPT ![name] = @ + 1]
                       /\ last' = [kind |-> "update", name |-> name, outcome |-> "queued"]
                       /\ UNCHANGED <<state_signals, getter, panicked, applied>>
    /\ UNCHANGED <<provided, regs, codec>>
    /\ UNCHANGED connVars
    /\ UNCHANGED serverVars

\* The application of the examples: App calls provide_websocket once
\* (examples/actix-example/src/app.rs 13); repeated calls are in SpecProvide.
Next ==
    \/ \E c \in Channels, m \in Mutators : ServerSignal_with(c, m)
    \/ ConnectionClosed
    \/ \E frame \in {TextFrame(Garbage), BinaryFrame} : SendOther(frame)
    \/ (context_ws = 0 /\ provide_websocket)
    \/ \E c \in Channels : create_server_signal(c)
    \/ on_message

Spec == Init /\ [][Next]_vars

(***************************************************************************)
(* The diff codec on its own: a pair of JSON values, then one round trip.  *)
(***************************************************************************)
Scalars == {Num(n) : n \in 0..MaxValue}
SeqsUpTo(S, n) == UNION {[1..k -> S] : k \in 0..n}
Arrays == {Arr(s) : s \in SeqsUpTo({Num(0), Num(1)}, MaxArr)}
Leaves == Scalars \cup Arrays
Objects == {Obj(g) : g \in UNION {[D -> Leaves] : D \in SUBSET Keys}}
JsonDomain == Leaves \cup Objects

InitCodec ==
    /\ InitMain
    /\ codec \in {[phase |-> "in", left |-> a, right |-> b, out |-> a] :
                     a \in JsonDomain, b \in JsonDomain}

RoundTrip ==
    /\ codec.phase = "in"
    /\ codec' = [codec EXCEPT !.phase = "out",
                              !.out = patch(codec.left, diff(codec.left, codec.right))]
    /\ UNCHANGED <<wire>>
    /\ UNCHANGED serverVars
    /\ UNCHANGED clientVars

NextCodec == RoundTrip

SpecCodec == InitCodec /\ [][NextCodec]_vars

(***************************************************************************)
(* The mutation loop of the examples: one channel, "counter", incremented  *)
(* until with() returns an error.                                          *)
(***************************************************************************)
\* `result` of the loop is what the last with() call returned; the loop has
\* left through `break` once that is an error.
loop_running == ret.res \in {"none", "Ok"}

mutation_loop_nonstop == ServerSignal_with("counter", "incr")

\* loop { let result = count.with(|count| count.value += 1).await;
\*        if result.is_err() { break; } }
mutation_loop ==
    /\ loop_running
    /\ ServerSignal_with("counter", "incr")

NextLoop ==
    \/ mutation_loop
    \/ ConnectionClosed
    \/ (context_ws = 0 /\ provide_websocket)
    \/ \E c \in Channels : create_server_signal(c)
    \/ on_message

SpecLoop == Init /\ [][NextLoop]_vars

(***************************************************************************)
(* Client with retry: provide_websocket_with_retry, the error and close    *)
(* events of a socket, and the timeout that opens a new socket. The socket *)
(* the server side talks to is the one opened last; a new connection is    *)
(* served by a new handler, whose ServerSignal starts at T::default().     *)
(***************************************************************************)
on_timeout_forgetting ==
    /\ ~panicked
    /\ timeouts # <<>>
    /\ Len(sockets) < MaxSockets
    /\ sockets' = Append(sockets, NewSocket)
    /\ retry_ws' = [retry_ws EXCEPT ![Head(timeouts)] = Len(sockets) + 1]
    /\ timeouts' = Tail(timeouts)
    /\ last' = [kind |-> "reconnect", name |-> "", outcome |-> "opened"]
    /\ value' = [c \in Channels |-> Default]
    /\ json_value' = [c \in Channels |-> to_value(Default)]
    /\ session' = "open"
    /\ ret' = [name |-> "", f |-> "", res |-> "none"]
    /\ wire' = <<>>
    /\ sent' = [c \in Channels |-> <<>>]
    /\ UNCHANGED <<calls, junk, provided, state_signals, delayed_updates, getter,
                   panicked, regs, arrived, applied, early, context_ws, codec>>

on_timeout_resetting ==
    /\ ~panicked
    /\ timeouts # <<>>
    /\ Len(sockets) < MaxSockets
    /\ LET k == Head(timeouts)
           old == sockets[retry_ws[k]]
           new_ws == [NewSocket EXCEPT !.onmessage = old.onmessage,
                                       !.onclose = old.onclose,
                                       !.onerror = old.onerror]
       IN /\ sockets' = Append(sockets, new_ws)
          /\ retry_ws' = [retry_ws EXCEPT ![k] = Len(sockets) + 1]
    /\ timeouts' = Tail(timeouts)
    /\ last' = [kind |-> "reconnect", name |-> "", outcome |-> "opened"]
    /\ value' = [c \in Channels |-> Default]
    /\ json_value' = [c \in Channels |-> to_value(Default)]
    /\ session' = "open"
    /\ ret' = [name |-> "", f |-> "", res |-> "none"]
    /\ wire' = <<>>
    /\ sent' = [c \in Channels |-> <<>>]
    /\ state_signals' = <<>>
    /\ delayed_updates' = <<>>
    /\ UNCHANGED <<calls, junk, provided, getter, panicked, regs, arrived,
                   applied, early, context_ws, codec>>

\* provide_websocket_with_retry: provide_websocket_inner, then add_retry_timeout
\* on the socket of the context: a new pair of closures, whose server_signal_ws
\* is a clone of the context, becomes the onerror handler of that socket.
provide_websocket_with_retry ==
    /\ ~panicked
    /\ Len(retry_ws) < MaxClosures
    /\ provided' = TRUE
    /\ context_ws' = inner_ws
    /\ retry_ws' = Append(retry_ws, inner_ws)
    /\ sockets' = [inner_sockets EXCEPT ![inner_ws].onerror = Len(retry_ws) + 1]
    /\ last' = [kind |-> "provide", name |-> "",
                outcome |-> IF context_ws = 0 THEN "created" ELSE "existing"]
    /\ UNCHANGED <<state_signals, delayed_updates, getter, panicked, regs,
                   arrived, applied, early, timeouts, wire, codec>>
    /\ UNCHANGED serverVars

\* The connection of socket s is lost and the browser fires the error event:
\* on_error_callback, when set, calls window.set_timeout(on_timeout_callback).
ws_error(s) ==
    /\ ~panicked
    /\ sockets[s].state = "open"
    /\ sockets' = [sockets EXCEPT ![s].state = "error"]
    /\ timeouts' = IF sockets[s].onerror # 0
                   THEN Append(timeouts, sockets[s].onerror) ELSE timeouts
    /\ last' = [kind |-> "error", name |-> "",
                outcome |-> IF sockets[s].onerror # 0 THEN "scheduled" ELSE "ignored"]
    /\ session' = "closed"
    /\ wire' = <<>>
    /\ UNCHANGED <<value, json_value, ret, calls, junk, sent, provided,
                   state_signals, delayed_updates, getter, panicked, regs, arrived,
                   applied, early, context_ws, retry_ws, codec>>

\* The connection of socket s is closed without an error (the server handler
\* ended, the server went away in an orderly way): only the close event fires.
ws_close(s) ==
    /\ ~panicked
    /\ sockets[s].state = "open"
    /\ sockets' = [sockets EXCEPT ![s].state = "closed"]
    /\ timeouts' = IF sockets[s].onclose # 0
                   THEN Append(timeouts, sockets[s].onclose) ELSE timeouts
    /\ last' = [kind |-> "close", name |-> "",
                outcome |-> IF sockets[s].onclose # 0 THEN "scheduled" ELSE "ignored"]
    /\ session' = "closed"
    /\ wire' = <<>>
    /\ UNCHANGED <<value, json_value, ret, calls, junk, sent, provided,
                   state_signals, delayed_updates, getter, panicked, regs, arrived,
                   applied, early, context_ws, retry_ws, codec>>

\* on_timeout_callback: a new socket to the same url takes the handlers of the
\* closure's socket and replaces it in the closure's server_signal_ws.
on_timeout ==
    /\ ~panicked
    /\ timeouts # <<>>
    /\ Len(sockets) < MaxSockets
    /\ LET k == Head(timeouts)
           old == sockets[retry_ws[k]]
           new_ws == [NewSocket EXCEPT !.onmessage = old.onmessage,
                                       !.onclose = old.onclose,
                                       !.onerror = old.onerror]
       IN /\ sockets' = Append(sockets, new_ws)
          /\ retry_ws' = [retry_ws EXCEPT ![k] = Len(sockets) + 1]
    /\ timeouts' = Tail(timeouts)
    /\ last' = [kind |-> "reconnect", name |-> "", outcome |-> "opened"]
    /\ value' = [c \in Channels |-> Default]
    /\ json_value' = [c \in Channels |-> to_value(Default)]
    /\ session' = "open"
    /\ ret' = [name |-> "", f |-> "", res |-> "none"]
    /\ wire' = <<>>
    /\ sent' = [c \in Channels |-> <<>>]
    /\ UNCHANGED <<calls, junk, provided, state_signals, delayed_updates, getter,
                   panicked, regs, arrived, applied, early, context_ws, codec>>

NextRetry ==
    \/ mutation_loop
    \/ provide_websocket_with_retry
    \/ \E c \in Channels : create_server_signal(c)
    \/ on_message
    \/ \E s \in 1..Len(sockets) : ws_error(s)
    \/ \E s \in 1..Len(sockets) : ws_close(s)
    \/ on_timeout

SpecRetry == Init /\ [][NextRetry]_vars

(***************************************************************************)
(* An application that calls provide_websocket any number of times, at any *)
(* moment, next to registrations, server calls and deliveries.             *)
(***************************************************************************)
NextProvide ==
    \/ \E c \in Channels, m \in Mutators : ServerSignal_with(c, m)
    \/ provide_websocket
    \/ \E c \in Channels : create_server_signal(c)
    \/ on_message

SpecProvide == Init /\ [][NextProvide]_vars

(***************************************************************************)
(* Server, axum flavour: with(sink, f) on any Sink<Message>. What          *)
(* serde_json and the sink answer on a call is an input of the call: T may *)
(* hold values whose Serialize fails, and a sink may refuse one message    *)
(* and accept the next.                                                    *)
(***************************************************************************)
\* where a call fails: nowhere, in serde_json::to_value(self.value.clone()),
\* in serde_json::to_string(&update), or in sink.send
Faults == {"none", "to_value", "to_string", "send"}

\* history: with() calls that returned an error
failed_calls == calls - (Len(sent["counter"]) + Len(sent["x"]))

ServerSignal_with_sink_early_base(c, m, fault) ==
    /\ provided
    /\ calls + junk < MaxSends
    /\ fault # "none" => failed_calls < MaxFaults
    /\ MutatorAllowed(m, value[c])
    /\ LET output == f(m, value[c])
           new_json == to_value(output)
           update == new_from_json(c, json_value[c], new_json)
           update_json == to_string(update)
       IN /\ value' = [value EXCEPT ![c] = output]
          /\ IF fault \in {"to_value", "to_string"}
             THEN /\ ret' = [name |-> c, f |-> m, res |-> "SerializationFailed"]
                  /\ json_value' = IF fault = "to_string"
                                 THEN [json_value EXCEPT ![c] = new_json]
                                 ELSE json_value
                  /\ UNCHANGED <<wire, sent>>
             ELSE IF fault = "send" \/ session # "open"
             THEN /\ ret' = [name |-> c, f |-> m, res |-> "WebSocket"]
                  /\ UNCHANGED <<wire, json_value, sent>>
             ELSE /\ wire' = Append(wire, TextFrame(update_json))
                  /\ json_value' = [json_value EXCEPT ![c] = new_json]
                  /\ sent' = [sent EXCEPT ![c] =
                                 Append(@, [snap |-> output, patch |-> update.patch])]
                  /\ ret' = [name |-> c, f |-> m, res |-> "Ok"]
    /\ calls' = calls + 1
    /\ UNCHANGED <<session, junk, codec>>
    /\ UNCHANGED clientVars

ServerSignal_with_sink_eager(c, m, fault) ==
    /\ provided
    /\ calls + junk < MaxSends
    /\ fault # "none" => failed_calls < MaxFaults
    /\ MutatorAllowed(m, value[c])
    /\ LET output == f(m, value[c])
           new_json == to_value(output)
           update == new_from_json(c, json_value[c], new_json)
           update_json == to_string(update)
       IN /\ value' = [value EXCEPT ![c] = output]
          /\ IF fault \in {"to_value", "to_string"}
             THEN /\ ret' = [name |-> c, f |-> m, res |-> "SerializationFailed"]
                  /\ UNCHANGED <<wire, json_value, sent>>
             ELSE IF fault = "send" \/ session # "open"
             THEN /\ ret' = [name |-> c, f |-> m, res |-> "WebSocket"]
                  /\ json_value' = [json_value EXCEPT ![c] = new_json]
                  /\ UNCHANGED <<wire, sent>>
             ELSE /\ wire' = Append(wire, TextFrame(update_json))
                  /\ json_value' = [json_value EXCEPT ![c] = new_json]
                  /\ sent' = [sent EXCEPT ![c] =
                                 Append(@, [snap |-> output, patch |-> update.patch])]
                  /\ ret' = [name |-> c, f |-> m, res |-> "Ok"]
    /\ calls' = calls + 1
    /\ UNCHANGED <<session, junk, codec>>
    /\ UNCHANGED clientVars

\* f(&mut self.value) runs first; each of the three fallible steps returns
\* through `?` before the next; self.json_value = new_json runs last.
ServerSignal_with_sink(c, m, fault) ==
    /\ provided
    /\ calls + junk < MaxSends
    /\ fault # "none" => failed_calls < MaxFaults
    /\ MutatorAllowed(m, value[c])
    /\ LET output == f(m, value[c])
           new_json == to_value(output)
           update == new_from_json(c, json_value[c], new_json)
           update_json == to_string(update)
       IN /\ value' = [value EXCEPT ![c] = output]
          /\ IF fault \in {"to_value", "to_string"}
             THEN /\ ret' = [name |-> c, f |-> m, res |-> "SerializationFailed"]
                  /\ UNCHANGED <<wire, json_value, sent>>
             ELSE IF fault = "send" \/ session # "open"
             THEN /\ ret' = [name |-> c, f |-> m, res |-> "WebSocket"]
                  /\ UNCHANGED <<wire, json_value, sent>>
             ELSE /\ wire' = Append(wire, TextFrame(update_json))
                  /\ json_value' = [json_value EXCEPT ![c] = new_json]
                  /\ sent' = [sent EXCEPT ![c] =
                                 Append(@, [snap |-> output, patch |-> update.patch])]
                  /\ ret' = [name |-> c, f |-> m, res |-> "Ok"]
    /\ calls' = calls + 1
    /\ UNCHANGED <<session, junk, codec>>
    /\ UNCHANGED clientVars

NextAxum ==
    \/ \E c \in Channels, m \in Mutators, fault \in Faults :
          ServerSignal_with_sink(c, m, fault)
    \/ (context_ws = 0 /\ provide_websocket)
    \/ \E c \in Channels : create_server_signal(c)
    \/ on_message

SpecAxum == Init /\ [][NextAxum]_vars

(***************************************************************************)
(* Client with retry against a handler that owns the channel "counter" and *)
(* mutates it in any way T allows, not only by the increment of the        *)
(* examples.                                                               *)
(***************************************************************************)
NextReconnect ==
    \/ \E m \in Mutators : ServerSignal_with("counter", m)
    \/ provide_websocket_with_retry
    \/ \E c \in Channels : create_server_signal(c)
    \/ on_message
    \/ \E s \in 1..Len(sockets) : ws_error(s)
    \/ on_timeout

SpecReconnect == Init /\ [][NextReconnect]_vars

(***************************************************************************)
(* A consumer whose change notification registers a channel. signal.update *)
(* notifies its subscribers before it returns, so the notification runs    *)
(* inside the onmessage callback, while the callback holds                 *)
(*   handler_map = handlers.borrow()                (lib.rs 239)           *)
(*   delayed_map = delayed_updates.borrow_mut()     (lib.rs 241)           *)
(***************************************************************************)
handler_borrows == [state_signals |-> "shared", delayed_updates |-> "mut"]

\* RefCell::borrow_mut panics unless nobody holds a borrow of the cell
borrow_mut_ok(held, cell) == held[cell] = "none"

\* The onmessage callback on a well-formed envelope for a registered name,
\* where the notification of the first signal.update that runs calls
\* create_server_signal(c2), which does state_signals.borrow_mut().insert(..).
on_message_registering(c2) ==
    /\ provided
    /\ ~panicked
    /\ sockets[live].state = "open"
    /\ sockets[live].onmessage = 1
    /\ wire # <<>>
    /\ Head(wire).frame = "text"
    /\ from_str(Head(wire).data).ok
    /\ from_str(Head(wire).data).update.name \in DOMAIN state_signals
    /\ wire' = Tail(wire)
    /\ LET update_signal == from_str(Head(wire).data).update
           name == update_signal.name
           queued == name \in DOMAIN delayed_updates
           delayed_patches == IF queued THEN delayed_updates[name] ELSE <<>>
           batch == apply_delayed(state_signals[name], delayed_patches, 1)
           \* the document after the first signal.update, and what it applied
           doc == IF queued THEN batch.doc
                  ELSE patch(state_signals[name], update_signal.patch)
           log == IF queued THEN batch.log ELSE <<update_signal.patch>>
           \* what the rest of the callback would make of it
           rest == IF queued THEN patch(doc, update_signal.patch) ELSE doc
       IN \* the closure of that signal.update and the effect of the replica
          \* (from_value(..).unwrap()) ran through: the notification is reached
          /\ ~IsErr(doc)
          /\ queued => batch.ok
          /\ from_value(doc).ok
          /\ arrived' = [arrived EXCEPT ![name] = Append(@, update_signal.patch)]
          /\ delayed_updates' = DelKey(delayed_updates, name)
          /\ IF borrow_mut_ok(handler_borrows, "state_signals")
             THEN /\ ~IsErr(rest)
                  /\ from_value(rest).ok
                  /\ state_signals' = PutKey(PutKey(state_signals, name, rest),
                                             c2, to_value(Default))
                  /\ regs' = [regs EXCEPT ![c2] = @ + 1]
                  /\ applied' = [applied EXCEPT ![name] =
                                    @ \o log \o (IF queued THEN <<update_signal.patch>>
                                                 ELSE <<>>)]
                  /\ getter' = PutKey(effect(name, rest), c2, Default)
                  /\ last' = [kind |-> "notify_register", name |-> c2,
                              outcome |-> "inserted"]
                  /\ UNCHANGED panicked
             ELSE \* BorrowMutError: the panic unwinds out of the callback
                  /\ state_signals' = PutKey(state_signals, name, doc)
                  /\ applied' = [applied EXCEPT ![name] = @ \o log]
                  /\ getter' = effect(name, doc)
                  /\ panicked' = TRUE
                  /\ last' = [kind |-> "notify_register", name |-> c2,
                              outcome |-> "panic"]
                  /\ UNCHANGED regs
    /\ UNCHANGED <<provided, early, codec>>
    /\ UNCHANGED connVars
    /\ UNCHANGED serverVars

NextNested ==
    \/ \E m \in Mutators : ServerSignal_with("counter", m)
    \/ (context_ws = 0 /\ provide_websocket)
    \/ \E c \in Channels : create_server_signal(c)
    \/ on_message
    \/ \E c2 \in Channels : on_message_registering(c2)

SpecNested == Init /\ [][NextNested]_vars

(***************************************************************************)
(* Properties.                                                             *)
(***************************************************************************)
\* the server snapshot of channel c after the mutate that wrote its k-th envelope
Snap(c, k) == IF k = 0 THEN Default ELSE sent[c][k].snap

\* the patches the server wrote for channel c, in the order of the calls
Written(c) == [k \in 1..Len(sent[c]) |-> sent[c][k].patch]

Queue(c) == IF c \in DOMAIN delayed_updates THEN delayed_updates[c] ELSE <<>>

IsPrefix(s, t) == Len(s) <= Len(t) /\ SubSeq(t, 1, Len(s)) = s

\* C1: a replica registered once, before any envelope for its channel was
\* delivered, equals, after the client has processed k envelopes of the channel,
\* the server's snapshot after the mutate that wrote the k-th of them; the
\* consumer's typed signal holds the same snapshot.
C1_EndToEnd ==
    \A c \in Channels :
        (c \in DOMAIN state_signals /\ regs[c] = 1 /\ early[c] = 0)
        => /\ state_signals[c] = to_value(Snap(c, Len(arrived[c])))
           /\ getter[c] = Snap(c, Len(arrived[c]))

\* three increments of "counter" have been written, delivered and applied
C1_Witness ==
    /\ "counter" \in DOMAIN state_signals
    /\ regs["counter"] = 1 /\ early["counter"] = 0
    /\ Len(arrived["counter"]) = 3
    /\ value["counter"] = [value |-> 3, items |-> <<>>]
    /\ state_signals["counter"] = to_value([value |-> 3, items |-> <<>>])

\* C2: applying the patch diff(a, b) to a yields exactly b.
C2_RoundTrip == codec.phase = "out" => codec.out = codec.right

\* a round trip whose patch removes, adds and replaces
C2_Witness ==
    /\ codec.phase = "out"
    /\ \E i \in 1..Len(diff(codec.left, codec.right)) :
           diff(codec.left, codec.right)[i].op = "remove"
    /\ \E i \in 1..Len(diff(codec.left, codec.right)) :
           diff(codec.left, codec.right)[i].op = "add"
    /\ \E i \in 1..Len(diff(codec.left, codec.right)) :
           diff(codec.left, codec.right)[i].op = "replace"

\* the document after every patch of the list has been applied in order
RECURSIVE Replay(_, _)
Replay(doc, patches) ==
    IF patches = <<>> \/ IsErr(doc) THEN doc
    ELSE Replay(patch(doc, Head(patches)), Tail(patches))

\* the step is a run of the onmessage callback on a well-formed envelope
Delivers ==
    /\ wire # <<>>
    /\ wire' = Tail(wire)
    /\ Head(wire).frame = "text"
    /\ from_str(Head(wire).data).ok

Incoming == from_str(Head(wire).data).update

\* C3: right after the first registration of a channel whose diffs arrived
\* earlier, the replica equals those diffs applied in arrival order to the
\* initial value and the queue holds no entry for the channel.
C3_DrainedAtRegistration ==
    (last.kind = "register" /\ last.outcome = "inserted" /\ early[last.name] > 0)
    => /\ last.name \notin DOMAIN delayed_updates
       /\ state_signals[last.name] = Replay(to_value(Default), arrived[last.name])

\* the queue of an unregistered channel is all its diffs, in arrival order; a
\* queue entry always is the diffs that arrived before the registration
C4_Inv ==
    \A c \in Channels :
        /\ c \notin DOMAIN state_signals => (Queue(c) = arrived[c] /\ applied[c] = <<>>)
        /\ c \in DOMAIN delayed_updates
               => delayed_updates[c] = SubSeq(arrived[c], 1, early[c])

\* the queueing step appends to the entry of the channel and touches no replica
C4_Step ==
    (Delivers /\ Incoming.name \notin DOMAIN state_signals)
    => /\ delayed_updates' = PutKey(delayed_updates, Incoming.name,
                                    Append(Queue(Incoming.name), Incoming.patch))
       /\ state_signals' = state_signals
       /\ getter' = getter
       /\ ~panicked'

\* C4: the diff of a well-formed envelope for an unregistered channel is
\* appended to the end of that channel's queue, it is not dropped and no replica
\* changes, so the queue of an unregistered channel is the sequence of all its
\* diffs in arrival order.
C4_Queued == []C4_Inv /\ [][C4_Step]_vars

\* two different diffs wait, in arrival order, for a channel not yet registered
C4_Witness ==
    /\ "x" \notin DOMAIN state_signals
    /\ Len(Queue("x")) = 2
    /\ Queue("x")[1] # Queue("x")[2]
    /\ Queue("x") = Written("x")

\* applied diffs are a prefix of the delivered ones, these a prefix of the
\* written ones, and while diffs are queued nothing later has been applied
C5_Inv ==
    \A c \in Channels :
        /\ IsPrefix(applied[c], arrived[c])
        /\ IsPrefix(arrived[c], Written(c))
        /\ c \in DOMAIN delayed_updates => applied[c] \o delayed_updates[c] = arrived[c]

\* a queue entry goes away only by being applied whole, before the new diff
C5_Step ==
    \A c \in Channels :
        (c \in DOMAIN delayed_updates /\ c \notin DOMAIN delayed_updates')
        => /\ Delivers /\ Incoming.name = c
           /\ applied'[c] = delayed_updates[c] \o <<Incoming.patch>>
           /\ state_signals'[c] =
                  Replay(state_signals[c], delayed_updates[c] \o <<Incoming.patch>>)

\* C5: the diffs applied to the replica of a channel are applied in the order
\* the server wrote them; the queued diffs are applied as one whole batch that
\* empties the queue entry, before the diff that arrived later, and no later
\* diff is applied while an earlier one of the channel is still queued.
C5_Order == []C5_Inv /\ [][C5_Step]_vars

\* a queue of two diffs was drained together with a third diff
C5_Witness ==
    /\ early["x"] = 2
    /\ Len(applied["x"]) = 3
    /\ applied["x"][1] # applied["x"][2]
    /\ last = [kind |-> "update", name |-> "x", outcome |-> "applied"]

C6_Inv ==
    \A c \in Channels :
        (c \in DOMAIN state_signals /\ c \in DOMAIN delayed_updates)
        => state_signals[c] = to_value(Default)

\* a re-registration replaces the replica and leaves delayed_updates alone
C6_Step ==
    \A c \in Channels :
        (c \in DOMAIN state_signals /\ regs'[c] = regs[c] + 1)
        => /\ state_signals' = PutKey(state_signals, c, to_value(Default))
           /\ getter'[c] = Default
           /\ delayed_updates' = delayed_updates

C7_NoCrash == last.kind \in {"garbage", "binary"} => ~panicked

\* C8: a diff that cannot be applied is not fatal to the client.
C8_NonFatal == last.kind = "update" => ~panicked

\* the websocket error is returned only on a closed connection
C9_Inv == ret.res = "WebSocket" => session = "closed"

\* what one call of with() does to the snapshot, the connection and json_value
C9_Step ==
    calls' = calls + 1
    => /\ value' = [value EXCEPT ![ret'.name] = f(ret'.f, value[ret'.name])]
       /\ session = "closed"
              => (ret'.res = "WebSocket" /\ wire' = wire /\ json_value' = json_value)
       /\ session = "open" => ret'.res = "Ok"

\* C9: with() applies the caller's closure to the snapshot whether or not the
\* write succeeds; on a closed connection it returns the websocket error, writes
\* nothing and leaves json_value alone, and the snapshot keeps the mutated value.
C9_NoRollback == []C9_Inv /\ [][C9_Step]_vars

\* a failed with() left a snapshot that differs from the last one sent
C9_Witness ==
    /\ ret.res = "WebSocket"
    /\ ret.f = "incr"
    /\ value[ret.name].value > 0
    /\ json_value[ret.name] # to_value(value[ret.name])

\* the patches of the envelopes of channel c still on the connection, in order
InFlight(c) ==
    LET mine == SelectSeq(wire, LAMBDA fr : fr.frame = "text" /\ from_str(fr.data).ok
                                             /\ from_str(fr.data).update.name = c)
    IN [i \in 1..Len(mine) |-> from_str(mine[i].data).update.patch]

\* per channel, delivered and in-flight diffs are the written ones in call
\* order; while the connection is open every call has written one envelope
C10_Inv ==
    /\ \A c \in Channels : arrived[c] \o InFlight(c) = Written(c)
    /\ session = "open" => Len(sent["counter"]) + Len(sent["x"]) = calls

\* a call on an open connection appends its envelope; no other step writes one
C10_Step ==
    /\ (calls' = calls + 1 /\ session = "open")
       => wire' = Append(wire, TextFrame(to_string(
              [name |-> ret'.name,
               patch |-> diff(json_value[ret'.name], to_value(value'[ret'.name]))])))
    /\ (calls' = calls /\ junk' = junk) => Len(wire') <= Len(wire)

C11_Step ==
    /\ session = "closed" => session' = "closed"
    /\ (session = "closed" /\ calls' # calls)
       => /\ ret'.res = "WebSocket"
          /\ wire' = wire
          /\ sent' = sent
          /\ json_value' = json_value
    /\ ret.res = "WebSocket" => (value' = value /\ calls' = calls /\ ret' = ret)

\* C11: once the connection has reported closure it stays closed, every later
\* with() call fails with the websocket-closed error and writes no envelope, and
\* the mutation loop of the examples, which breaks on the first error, mutates
\* nothing after it.
C11_ClosedIsFinal == [][C11_Step]_vars

\* the loop wrote one envelope, the connection closed, the next call failed
C11_Witness ==
    /\ session = "closed"
    /\ ret.res = "WebSocket"
    /\ calls = 2
    /\ Len(sent["counter"]) = 1
    /\ value["counter"].value = 2

\* a step of the reconnect machinery: the error or close event of a socket, or
\* the timeout that opens the new connection
ReconnectStep == sockets' # sockets /\ last'.kind \in {"error", "close", "reconnect"}

\* C12: the connection-error step, the timeout step and the opening of the new
\* connection leave the registered replicas, their values, the consumers'
\* signals and the delayed queue exactly as they were.
C12_ReconnectKeepsState ==
    [][ReconnectStep => /\ state_signals' = state_signals
                        /\ delayed_updates' = delayed_updates
                        /\ getter' = getter]_vars

\* a second connection was opened while the replica of "counter" held a
\* value received over the first one
C12_Witness ==
    /\ last.kind = "reconnect"
    /\ Len(sockets) = 2
    /\ "counter" \in DOMAIN state_signals
    /\ state_signals["counter"] = to_value([value |-> 1, items |-> <<>>])

\* C13: with retry enabled, every socket whose connection was lost, whether
\* the loss was reported by an error event or by a close event, has a reconnect
\* pending (a timeout is set) or already made (a later socket exists).
C13_LossSchedulesReconnect ==
    \A s \in 1..Len(sockets) :
        (sockets[s].onerror # 0 /\ sockets[s].state \in {"error", "closed"})
        => (timeouts # <<>> \/ Len(sockets) > s)

\* the replica registered under c, if any
Replica(c) == IF c \in DOMAIN state_signals THEN <<state_signals[c]>> ELSE <<>>
Signal(c) == IF c \in DOMAIN getter THEN <<getter[c]>> ELSE <<>>

\* an envelope for one channel leaves the replica, the consumer's signal and
\* the queue entry of every other channel alone; the value of a replica that
\* stays registered changes only when a diff addressed to its channel arrives
C14_Step ==
    /\ Delivers
       => \A c \in Channels \ {Incoming.name} :
              /\ Replica(c)' = Replica(c)
              /\ Signal(c)' = Signal(c)
              /\ Queue(c)' = Queue(c)
    /\ \A c \in Channels :
          (Replica(c) # <<>> /\ regs'[c] = regs[c] /\ Replica(c)' # Replica(c))
          => (Delivers /\ Incoming.name = c)

\* C14: channels are independent: processing an envelope addressed to one
\* channel_id changes at most the replica and the queue entry of that
\* channel_id, and the value of a registered replica changes only in a step that
\* applies an incoming diff addressed to its channel_id.
C14_Independent == [][C14_Step]_vars

\* an envelope for "x" was applied while the replica of "counter" held a
\* received value
C14_Witness ==
    /\ last = [kind |-> "update", name |-> "x", outcome |-> "applied"]
    /\ "counter" \in DOMAIN state_signals
    /\ state_signals["counter"] # to_value(Default)
    /\ state_signals["x"] # to_value(Default)

\* the step is a call of provide_websocket
ProvideStep == last'.kind = "provide" /\ calls' = calls

\* at most one socket was ever created; with a context, it is the socket of the
\* context, it is open and carries the onmessage callback
C15_Inv ==
    /\ Len(sockets) <= 1
    /\ provided <=> context_ws = 1
    /\ provided <=> Len(sockets) = 1
    /\ provided => (sockets[1].state = "open" /\ sockets[1].onmessage = 1)

\* a repeated call changes neither socket, registry nor queue; a delivered
\* envelope goes to that one registry or to that one queue
C15_Step ==
    /\ (ProvideStep /\ provided)
       => /\ sockets' = sockets
          /\ context_ws' = context_ws
          /\ state_signals' = state_signals
          /\ delayed_updates' = delayed_updates
          /\ getter' = getter
    /\ Delivers
       => IF Incoming.name \in DOMAIN state_signals
          THEN /\ Incoming.name \notin DOMAIN delayed_updates'
               /\ state_signals'[Incoming.name]
                    \in {state_signals[Incoming.name],
                         Replay(state_signals[Incoming.name], Queue(Incoming.name)),
                         Replay(state_signals[Incoming.name],
                                Append(Queue(Incoming.name), Incoming.patch))}
          ELSE /\ delayed_updates'[Incoming.name]
                    = Append(Queue(Incoming.name), Incoming.patch)
               /\ state_signals' = state_signals

\* C15: provide_websocket opens a connection only if none has been provided
\* yet: after any number of calls there is exactly one connection and one
\* registry; a repeated call leaves the registered replicas and the delayed
\* queue unchanged, and incoming envelopes are still routed to that registry.
C15_ProvideOnce == []C15_Inv /\ [][C15_Step]_vars

\* provide_websocket was called again while a replica held a received value
\* and a diff for the other channel was queued
C15_Witness ==
    /\ last = [kind |-> "provide", name |-> "", outcome |-> "existing"]
    /\ "counter" \in DOMAIN state_signals
    /\ state_signals["counter"] # to_value(Default)
    /\ Queue("x") # <<>>

\* a call that writes a snapshot whose encoding equals the one last sent writes
\* an envelope with the empty patch; an envelope with the empty patch, handled
\* for a registered channel with nothing queued, changes neither the replica
\* nor the consumer's signal and does not fail
C16_Step ==
    /\ (calls' = calls + 1 /\ ret'.res = "Ok"
          /\ to_value(value'[ret'.name]) = json_value[ret'.name])
       => wire' = Append(wire, TextFrame(to_string([name |-> ret'.name,
                                                    patch |-> <<>>])))
    /\ (Delivers /\ Incoming.patch = <<>>
          /\ Incoming.name \in DOMAIN state_signals /\ Queue(Incoming.name) = <<>>)
       => /\ state_signals' = state_signals
          /\ getter' = getter
          /\ ~panicked'

QueueNext(c) == IF c \in DOMAIN delayed_updates' THEN delayed_updates'[c] ELSE <<>>

\* the timeout step gives the new socket the onmessage callback and the onerror
\* closure of the socket it replaces; an envelope that arrives over a later
\* connection is applied to the registry or appended to the queue; the error
\* event of a later socket sets a timeout again
C17_Step ==
    /\ (last'.kind = "reconnect" /\ Len(sockets') = Len(sockets) + 1)
       => /\ sockets'[Len(sockets')].state = "open"
          /\ sockets'[Len(sockets')].onmessage = 1
          /\ sockets'[Len(sockets')].onmessage = sockets[live].onmessage
          /\ sockets'[Len(sockets')].onerror = sockets[live].onerror
          /\ sockets'[Len(sockets')].onerror # 0
    /\ (Delivers /\ last'.kind = "update" /\ Len(sockets) > 1)
       => /\ arrived'[Incoming.name] = Append(arrived[Incoming.name], Incoming.patch)
          /\ IF Incoming.name \in DOMAIN state_signals
             THEN /\ QueueNext(Incoming.name) = <<>>
                  /\ ~panicked' => state_signals'[Incoming.name] =
                        Replay(state_signals[Incoming.name],
                               Append(Queue(Incoming.name), Incoming.patch))
             ELSE /\ QueueNext(Incoming.name) = Append(Queue(Incoming.name), Incoming.patch)
                  /\ state_signals' = state_signals
    /\ \A s \in 2..Len(sockets) :
          (sockets[s].state = "open" /\ sockets'[s].state = "error")
          => timeouts' = Append(timeouts, sockets[s].onerror)

\* C17: after every reconnect the new connection carries the same message
\* handler and the same error handler as the old one: envelopes arriving over
\* it reach the same registry and queue, and an error on it schedules the next
\* reconnect, for any number of consecutive losses.
C17_HandlersCarriedOver == [][C17_Step]_vars

\* two connections were lost in a row, and an envelope received over the
\* third was applied to the replica registered before the first loss
C17_Witness ==
    /\ Len(sockets) = 3
    /\ sockets[1].state = "error" /\ sockets[2].state = "error"
    /\ last = [kind |-> "update", name |-> "counter", outcome |-> "applied"]
    /\ regs["counter"] = 1
    /\ Len(arrived["counter"]) = 2

\* C18: right after a reconnect, the socket the context's ws() accessor
\* returns is the newly opened socket, not the lost one.
C18_ContextHoldsNewSocket ==
    last.kind = "reconnect" => (context_ws = live /\ sockets[context_ws].state = "open")

\* a call that returns the serialization error has run the caller's closure
\* on the snapshot, written nothing and left json_value alone
C19_Step ==
    (calls' = calls + 1 /\ ret'.res = "SerializationFailed")
    => /\ wire' = wire
       /\ sent' = sent
       /\ json_value' = json_value
       /\ value' = [value EXCEPT ![ret'.name] = f(ret'.f, @)]

\* C19: when serde_json fails on the mutated snapshot or on the envelope,
\* with() returns Error::SerializationFailed, writes nothing to the connection
\* and leaves json_value, the base of the next diff, unchanged.
C19_SerializationError == [][C19_Step]_vars

\* the first call failed in serialization: the snapshot moved, nothing was
\* written and the base of the next diff is still the default
C19_Witness ==
    /\ ret.res = "SerializationFailed"
    /\ ret.f = "incr"
    /\ calls = 1
    /\ wire = <<>>
    /\ value[ret.name] = [value |-> 1, items |-> <<>>]
    /\ json_value[ret.name] = to_value(Default)

\* C20: json_value is the encoding of the snapshot of the last call whose
\* write succeeded (of T::default() if none did); it is what the written
\* envelopes, applied in order to the default, produce; right after a
\* successful call it is the encoding of the current snapshot, and a replica of
\* the client that has applied exactly the written envelopes holds it.
C20_BaseIsLastWritten ==
    /\ \A c \in Channels :
          /\ json_value[c] = to_value(Snap(c, Len(sent[c])))
          /\ json_value[c] = Replay(to_value(Default), Written(c))
          /\ (c \in DOMAIN state_signals /\ regs[c] = 1 /\ early[c] = 0
                /\ arrived[c] = Written(c))
             => state_signals[c] = json_value[c]
    /\ ret.res = "Ok" => json_value[ret.name] = to_value(value[ret.name])

\* increment written, increment failed, increment written: the replica has
\* applied the two envelopes and holds the server's snapshot, 3
C20_Witness ==
    /\ ret = [name |-> "counter", f |-> "incr", res |-> "Ok"]
    /\ failed_calls = 1
    /\ Len(sent["counter"]) = 2
    /\ sent["counter"][1].snap.value = 1
    /\ value["counter"].value = 3
    /\ regs["counter"] = 1 /\ early["counter"] = 0
    /\ arrived["counter"] = Written("counter")
    /\ state_signals["counter"] = to_value(value["counter"])

\* the replica of c was registered once, before any envelope for c arrived,
\* received envelopes over an earlier connection, and has by now applied every
\* envelope the handler of the current connection wrote, at least one
CaughtUpAfterReconnect(c) ==
    /\ Len(sockets) > 1
    /\ sockets[live].state = "open"
    /\ ~panicked
    /\ c \in DOMAIN state_signals
    /\ regs[c] = 1 /\ early[c] = 0
    /\ Len(sent[c]) > 0
    /\ Len(arrived[c]) > Len(sent[c])
    /\ wire = <<>>

\* C21: after a reconnect served by a fresh channel that starts at the
\* default, a replica that kept its value from before the loss and has applied
\* every envelope written on the new connection equals the current snapshot
\* of the new server channel.
C21_ConvergesAfterReconnect ==
    \A c \in Channels :
        CaughtUpAfterReconnect(c) => state_signals[c] = to_value(value[c])

\* C22: a create_server_signal call made from inside a change notification,
\* which runs while the onmessage callback is applying a diff and holds its
\* borrows of the registry and of the delayed queue, inserts the replica and
\* does not abort the callback.
C22_RegistersInsideNotification ==
    last.kind = "notify_register"
    => /\ ~panicked
       /\ last.outcome = "inserted"
       /\ last.name \in DOMAIN state_signals

====
